---- MODULE Spec2Model ----
(***************************************************************************)
(* Model of the batch path of draft-two: process_batch                     *)
(* (pipeline/batch_processor.py) and extract_facts_in_batch                *)
(* (pipeline/fact_extractor.py).  One run of one of the two functions is   *)
(* a walk of pc from "start" to "done"; the file system, the credential    *)
(* and the remote batch service are the environment env, fixed at Init.    *)
(* Strings the code takes apart (file names, custom ids) are sequences of  *)
(* one-character strings.                                                  *)
(***************************************************************************)
EXTENDS Integers, Sequences, FiniteSets, TLC

\* ------------------------------------------------------------------ bounds
\* Most entries of the input directory.
MaxFiles == 2
\* Most non-terminal replies of the remote before its terminal reply.
MaxPolls == 3
\* Most lines of the remote's output file.
MaxLines == 3
MaxRepeats == 2

\* ------------------------------------------------------ strings and names
TXT == <<".", "t", "x", "t">>

A_TXT == <<"a">> \o TXT
B_TXT == <<"b">> \o TXT
DOT_TXT == TXT
DOT_TXT_TXT == TXT \o TXT
A_TX == <<"a", ".", "t", "x">>

\* The file names a directory entry is drawn from.
FileNames == {A_TXT, B_TXT, DOT_TXT, DOT_TXT_TXT, A_TX}

\* str.endswith
EndsWith(s, suffix) ==
    /\ Len(s) >= Len(suffix)
    /\ SubSeq(s, Len(s) - Len(suffix) + 1, Len(s)) = suffix

\* str.rfind, 1-based; 0 when ch does not occur.
Rfind(s, ch) ==
    LET hits == {i \in 1..Len(s) : s[i] = ch}
    IN  IF hits = {} THEN 0 ELSE CHOOSE i \in hits : \A j \in hits : j <= i

\* os.path.splitext of a name without directory separator: the extension
\* starts at the last dot, unless only dots precede that dot.
splitext(p) ==
    LET dotIndex == Rfind(p, ".")
    IN  IF dotIndex > 0 /\ \E k \in 1..(dotIndex - 1) : p[k] # "."
        THEN <<SubSeq(p, 1, dotIndex - 1), SubSeq(p, dotIndex, Len(p))>>
        ELSE <<p, <<>>>>

\* custom_id = os.path.splitext(txt_filename)[0]
CustomIdOf(txt_filename) == splitext(txt_filename)[1]

\* The eligibility test as a substring test: '.tx' in f.
IsEligible_Substring(f) ==
    \E i \in 1..Len(f) : i + 2 <= Len(f) /\ SubSeq(f, i, i + 2) = <<".", "t", "x">>

\* f.endswith('.txt')
IsEligible(f) == EndsWith(f, TXT)

\* [f for f in os.listdir(input_folder_path) if f.endswith('.txt')]
EligibleFiles(listing) == SelectSeq(listing, LAMBDA e : IsEligible(e.name))

\* ------------------------------------------------------------ environment
Variants == {"process_batch", "extract_facts_in_batch"}

\* os.getenv("OPENAI_API_KEY"): unset, empty, the placeholder, or a key.
ApiKeys == {"unset", "empty", "placeholder", "valid"}

\* What open(...).read() of a listed file does: returns the text, raises
\* FileNotFoundError (removed since the listing), or raises another OSError
\* (no permission, a directory).
ReadOutcomes == {"ok", "FileNotFoundError", "PermissionError"}

DirEntries ==
    {[name |-> n, read |-> r] : n \in FileNames, r \in ReadOutcomes}

\* os.listdir: distinct names, in any order.
Listings ==
    {l \in UNION {[1..k -> DirEntries] : k \in 0..MaxFiles} :
        /\ \A i, j \in 1..Len(l) : i # j => l[i].name # l[j].name
        /\ \A i \in 1..Len(l) : ~IsEligible(l[i].name) => l[i].read = "ok"}

Terminal == {"completed", "failed", "cancelled"}
NonTerminal == {"queued", "running"}
Statuses == Terminal \cup NonTerminal

\* The replies of the remote to successive status queries: k non-terminal
\* statuses, then a terminal one.
Scripts ==
    {s \o <<t>> : s \in UNION {[1..k -> NonTerminal] : k \in 0..MaxPolls},
                  t \in Terminal}

\* --------------------------------------------------- the remote's output
\* message.content of a result: lines of text; pad says the line carries
\* surrounding blanks, text = "" is a line of blanks only.
Content1 == <<[pad |-> FALSE, text |-> "f1"]>>
Content2 == <<[pad |-> TRUE, text |-> "f2"], [pad |-> TRUE, text |-> ""],
              [pad |-> FALSE, text |-> "f3"]>>
NoContent == <<>>

\* No custom_id key in the JSON object of a line.
Absent == <<>>
\* json_line.get('custom_id', 'unknown_request')
UNKNOWN_REQUEST == <<"unknown_request">>

\* One line of the output file.  text: an empty line, a line that is not
\* JSON, or a JSON object; response: the object has no "response" key, a
\* null response, a response whose choices list is empty, or a response
\* carrying a message.
OkLine(id, c) ==
    [text |-> "json", custom_id |-> id, response |-> "message", content |-> c]
BlankLine ==
    [text |-> "blank", custom_id |-> Absent, response |-> "absent",
     content |-> NoContent]
GarbageLine ==
    [text |-> "garbage", custom_id |-> Absent, response |-> "absent",
     content |-> NoContent]
ErrorLine(id) ==
    [text |-> "json", custom_id |-> id, response |-> "absent",
     content |-> NoContent]
NullResponseLine(id) ==
    [text |-> "json", custom_id |-> id, response |-> "null",
     content |-> NoContent]
NoChoicesLine(id) ==
    [text |-> "json", custom_id |-> id, response |-> "no_choices",
     content |-> NoContent]

ID_A == <<"a">>

\* The lines an output file is drawn from.
ResultLines ==
    {OkLine(ID_A, Content1), OkLine(ID_A, Content2), OkLine(TXT, Content1),
     OkLine(Absent, Content1), BlankLine, GarbageLine, ErrorLine(ID_A),
     NoChoicesLine(ID_A), NullResponseLine(ID_A)}

Outputs == UNION {[1..k -> ResultLines] : k \in 0..MaxLines}

\* One iteration of the result loop up to the write: json.loads(line),
\* json_line.get('custom_id', 'unknown_request') and
\* json_line['response']['body']['choices'][0]['message']['content'].
\* exc is the exception raised, "none" when the content was reached.
ParseLine(line) ==
    LET id == IF line.custom_id = Absent THEN UNKNOWN_REQUEST
              ELSE line.custom_id
    IN  IF line.text # "json"
        THEN [exc |-> "JSONDecodeError", custom_id |-> Absent,
              content |-> NoContent]
        ELSE CASE line.response = "absent" ->
                    [exc |-> "KeyError", custom_id |-> id, content |-> NoContent]
               [] line.response = "null" ->
                    [exc |-> "TypeError", custom_id |-> id, content |-> NoContent]
               [] line.response = "no_choices" ->
                    [exc |-> "IndexError", custom_id |-> id, content |-> NoContent]
               [] OTHER ->
                    [exc |-> "none", custom_id |-> id, content |-> line.content]

\* The handler of the result loop without IndexError.
CaughtParseErrors_NoIndexError == {"JSONDecodeError", "KeyError"}

\* except (json.JSONDecodeError, KeyError, IndexError)
CaughtParseErrors == {"JSONDecodeError", "KeyError", "IndexError"}

\* result_content.strip().split('\n'): blank lines at both ends go, and a
\* content of blanks only is one empty line.
SplitLines(result_content) ==
    LET solid == {i \in 1..Len(result_content) :
                     result_content[i].text # "blank"}
    IN  IF solid = {} THEN <<BlankLine>>
        ELSE LET first == CHOOSE i \in solid : \A j \in solid : i <= j
                 last  == CHOOSE i \in solid : \A j \in solid : j <= i
             IN  SubSeq(result_content, first, last)

\* [fact.strip() for fact in content.strip().split('\n') if fact.strip()]
Facts(content) ==
    LET kept == SelectSeq(content, LAMBDA l : l.text # "")
    IN  [i \in 1..Len(kept) |-> [pad |-> FALSE, text |-> kept[i].text]]

\* What is written to the result file of one line: the content itself
\* (process_batch), or a CSV of a header row and one row per fact.
ResultFileBody(v, content) ==
    IF v = "process_batch" THEN [kind |-> "text", body |-> content]
    ELSE [kind |-> "csv",
          body |-> <<[pad |-> FALSE, text |-> "Fact"]>> \o Facts(content)]

\* f"{custom_id}.txt" and f"{custom_id}.csv" in the output folder.
ResultFileName(v, custom_id) ==
    custom_id \o (IF v = "process_batch" THEN <<".txt">> ELSE <<".csv">>)

\* raw_error_output.txt and raw_error_output_{input_folder_name}.txt
RawErrorName(v) ==
    IF v = "process_batch" THEN <<"raw_error_output.txt">>
    ELSE <<"raw_error_output_", "input_folder_name", ".txt">>

\* What is written to the raw error file.
RawFileBody(result_content) == [kind |-> "raw", body |-> result_content]

\* ------------------------------------------------------------------ state
VARIABLES
    env,                 \* credential, file system and remote service
    pc,                  \* position in the function; "done" once it ended
    exc,                 \* exception that left the function, or "none"
    system_prompt,       \* text of the instructions file (process_batch)
    metadata_content,    \* text of the metadata file (process_batch)
    transcription_files, \* the .txt entries of the input folder
    file_idx,            \* position of the request loop in that list
    batch_requests,      \* requests built so far
    skipped,             \* names of the files skipped with a warning
    calls,               \* number of calls made to each remote operation
    sleeps,              \* number of time.sleep(30) done
    batch,               \* the batch object last returned by the remote
    result_content,      \* decoded content of the output file
    lines,               \* result_content.strip().split('\n')
    line_idx,            \* position of the result loop in lines
    output_folder,       \* files written by this run: name -> body
    printed,             \* messages printed so far
    transcriber,         \* a run of audio_transcriber.main, or NotTranscribing
    demuxers,            \* two runs saving results at once, or NotDemuxing
    pipeline             \* a run of run_pipeline.main, or NotSequencing

vars == <<env, pc, exc, system_prompt, metadata_content, transcription_files,
          file_idx, batch_requests, skipped, calls, sleeps, batch,
          result_content, lines, line_idx, output_folder, printed,
          transcriber, demuxers, pipeline>>

\* The runs of the other entry points, which the batch functions never touch.
other_runs == <<transcriber, demuxers, pipeline>>

\* The run of process_batch / extract_facts_in_batch.
batch_run ==
    <<env, pc, exc, system_prompt, metadata_content, transcription_files,
      file_idx, batch_requests, skipped, calls, sleeps, batch,
      result_content, lines, line_idx, output_folder, printed>>

NoBatch == [status |-> "none", output_file_id |-> "none"]
NoCalls ==
    [upload |-> 0, create |-> 0, retrieve |-> 0, content |-> 0, cancel |-> 0]
NoFiles == <<>>
Unread == "unread"

\* The output the remote gives when the run is not about the result loop.
NominalOutput == <<OkLine(ID_A, Content1)>>
NominalListing == <<[name |-> A_TXT, read |-> "ok"]>>

Env(v, key, folder, instr, meta, listing, script, ofid, output) ==
    [variant |-> v, api_key |-> key, folder_exists |-> folder,
     instructions_exists |-> instr, metadata_exists |-> meta,
     listing |-> listing, script |-> script, output_file_id |-> ofid,
     output |-> output]

\* Runs about the preconditions: any credential and any presence of the
\* input folder, the instructions file and the metadata file.
EnvPreconditions ==
    {Env(v, key, folder, instr, meta, IF folder THEN l ELSE <<>>,
         <<"completed">>, TRUE, NominalOutput) :
        v \in Variants, key \in ApiKeys, folder \in BOOLEAN,
        instr \in BOOLEAN, meta \in BOOLEAN,
        l \in {<<>>, NominalListing}}

\* Runs about the request loop: any listing of the input folder.
EnvListings ==
    {Env(v, "valid", TRUE, TRUE, meta, l, <<"completed">>, TRUE,
         NominalOutput) :
        v \in Variants, meta \in BOOLEAN, l \in Listings}

\* Runs about the polling loop: any script of status replies.
EnvScripts ==
    {Env(v, "valid", TRUE, TRUE, TRUE, NominalListing, s, ofid,
         NominalOutput) :
        v \in Variants, s \in Scripts, ofid \in BOOLEAN}

\* Runs about the result loop: any output file, for one or two requests.
EnvOutputs ==
    {Env(v, "valid", TRUE, TRUE, TRUE, l, <<"completed">>, TRUE, o) :
        v \in Variants,
        l \in {NominalListing,
               <<[name |-> A_TXT, read |-> "ok"],
                 [name |-> DOT_TXT, read |-> "ok"]>>},
        o \in Outputs}

Envs == EnvPreconditions \cup EnvListings \cup EnvScripts \cup EnvOutputs

\* The locals of process_batch / extract_facts_in_batch before the call.
InitLocals ==
    /\ exc = "none"
    /\ system_prompt = Unread
    /\ metadata_content = Unread
    /\ transcription_files = <<>>
    /\ file_idx = 1
    /\ batch_requests = <<>>
    /\ skipped = {}
    /\ calls = NoCalls
    /\ sleeps = 0
    /\ batch = NoBatch
    /\ result_content = <<>>
    /\ lines = <<>>
    /\ line_idx = 1
    /\ output_folder = NoFiles
    /\ printed = {}

\* No run of the transcription stage.
NotTranscribing == [pc |-> "idle"]

\* No two runs saving results at once.
NotDemuxing == [pc |-> "idle"]

\* No run of the pipeline.
NotSequencing == [pc |-> "idle"]

Init ==
    /\ env \in Envs
    /\ pc = "start"
    /\ InitLocals
    /\ transcriber = NotTranscribing
    /\ demuxers = NotDemuxing
    /\ pipeline = NotSequencing

\* print(...)
Say(msgs) == printed' = printed \cup msgs

\* return: the function ends normally.
Return == pc' = "done" /\ exc' = exc

\* An exception no handler of the function catches ends it.
Raise(e) == pc' = "done" /\ exc' = e

\* ---------------------------------------------------------------- actions
\* The credential test without the placeholder: not api_key.
KeyMissing_NoPlaceholder(key) == key \in {"unset", "empty"}

\* not api_key or api_key == "YOUR_OPENAI_API_KEY_HERE"
KeyMissing(key) == key \in {"unset", "empty", "placeholder"}

\* load_dotenv() and the credential check at the head of both functions.
CheckKey ==
    /\ pc = "start"
    /\ IF KeyMissing(env.api_key)
       THEN Say({"ErrNoApiKey"}) /\ Return
       ELSE pc' = "read_inputs" /\ UNCHANGED <<exc, printed>>
    /\ UNCHANGED <<other_runs, env,
                   system_prompt, metadata_content, transcription_files,
                   file_idx, batch_requests, skipped, calls, sleeps, batch,
                   result_content, lines, line_idx, output_folder>>

\* The read of the metadata file without its own handler: the
\* FileNotFoundError reaches the handler of the enclosing try.
ReadMetadata_Unhandled(exists) ==
    IF exists THEN [raised |-> FALSE, content |-> "metadata", warn |-> {}]
    ELSE [raised |-> TRUE, content |-> Unread, warn |-> {}]

\* The read of the metadata file in its own try: FileNotFoundError gives
\* the empty text and a warning.
ReadMetadata(exists) ==
    IF exists THEN [raised |-> FALSE, content |-> "metadata", warn |-> {}]
    ELSE [raised |-> FALSE, content |-> "", warn |-> {"WarnNoMetadata"}]

\* Step 1 of process_batch: the instructions file, the metadata file and
\* the listing of the input folder, in that order, inside one try block.
ReadInputsReport ==
    /\ pc = "read_inputs"
    /\ env.variant = "process_batch"
    /\ UNCHANGED <<other_runs, env,
                   file_idx, batch_requests, skipped, calls, sleeps,
                   batch, result_content, lines, line_idx, output_folder>>
    /\ IF ~env.instructions_exists \/ ReadMetadata(env.metadata_exists).raised
       THEN /\ Say({"ErrInputNotFound"}) /\ Return
            /\ UNCHANGED <<system_prompt, metadata_content,
                           transcription_files>>
       ELSE /\ system_prompt' = "instructions"
            /\ metadata_content' = ReadMetadata(env.metadata_exists).content
            /\ LET warn == ReadMetadata(env.metadata_exists).warn
               IN  IF ~env.folder_exists
                   THEN /\ Say(warn \cup {"ErrInputNotFound"}) /\ Return
                        /\ UNCHANGED transcription_files
                   ELSE IF EligibleFiles(env.listing) = <<>>
                   THEN /\ Say(warn \cup {"NoTxtFiles"}) /\ Return
                        /\ UNCHANGED transcription_files
                   ELSE /\ Say(warn)
                        /\ transcription_files' = EligibleFiles(env.listing)
                        /\ pc' = "build" /\ UNCHANGED exc

\* Step 1 of extract_facts_in_batch: the listing of the input folder.
ReadInputsFacts ==
    /\ pc = "read_inputs"
    /\ env.variant = "extract_facts_in_batch"
    /\ UNCHANGED <<other_runs, env, system_prompt, metadata_content, file_idx,
                   batch_requests, skipped, calls, sleeps, batch,
                   result_content, lines, line_idx, output_folder>>
    /\ IF ~env.folder_exists
       THEN /\ Say({"ErrInputNotFound"}) /\ Return
            /\ UNCHANGED transcription_files
       ELSE IF EligibleFiles(env.listing) = <<>>
       THEN /\ Say({"NoTxtFiles"}) /\ Return
            /\ UNCHANGED transcription_files
       ELSE /\ transcription_files' = EligibleFiles(env.listing)
            /\ pc' = "build" /\ UNCHANGED <<exc, printed>>

\* The request built for one file that was read.
Request(v, entry, sys, meta) ==
    IF v = "process_batch"
    THEN [custom_id |-> CustomIdOf(entry.name), model |-> "gpt-4-turbo",
          system |-> sys, metadata |-> meta, text |-> entry.name]
    ELSE [custom_id |-> CustomIdOf(entry.name), model |-> "gpt-5.2",
          system |-> Unread, metadata |-> Unread, text |-> entry.name]

\* A request loop without a handler: every read error leaves the function.
CaughtReadErrors_None(v) == {}

\* The read errors the request loop catches: IOError in process_batch,
\* FileNotFoundError in extract_facts_in_batch.
CaughtReadErrors(v) ==
    IF v = "process_batch" THEN {"FileNotFoundError", "PermissionError"}
    ELSE {"FileNotFoundError"}

\* Step 2, one iteration of the request loop: read the file, then append
\* its request, or skip it with a warning, or leave with the exception.
BuildRequest ==
    /\ pc = "build"
    /\ file_idx <= Len(transcription_files)
    /\ UNCHANGED <<other_runs, env,
                   system_prompt, metadata_content, transcription_files,
                   calls, sleeps, batch, result_content, lines, line_idx,
                   output_folder>>
    /\ LET entry == transcription_files[file_idx]
       IN  IF entry.read = "ok"
           THEN /\ batch_requests' = Append(batch_requests,
                      Request(env.variant, entry, system_prompt,
                              metadata_content))
                /\ file_idx' = file_idx + 1
                /\ UNCHANGED <<pc, exc, skipped, printed>>
           ELSE IF entry.read \in CaughtReadErrors(env.variant)
           THEN /\ Say({"WarnSkipFile"})
                /\ skipped' = skipped \cup {entry.name}
                /\ file_idx' = file_idx + 1
                /\ UNCHANGED <<pc, exc, batch_requests>>
           ELSE /\ Raise(entry.read)
                /\ UNCHANGED <<file_idx, batch_requests, skipped, printed>>

\* End of the request loop: "if not batch_requests" and, when there is a
\* request, the temporary batch file written up to the upload call.
BuildEnd ==
    /\ pc = "build"
    /\ file_idx > Len(transcription_files)
    /\ IF batch_requests = <<>>
       THEN Say({"ErrNoValidRequests"}) /\ Return
       ELSE Say({"Prepared", "Uploading"}) /\ pc' = "upload" /\ UNCHANGED exc
    /\ UNCHANGED <<other_runs, env,
                   system_prompt, metadata_content, transcription_files,
                   file_idx, batch_requests, skipped, calls, sleeps, batch,
                   result_content, lines, line_idx, output_folder>>

Called(op) == calls' = [calls EXCEPT ![op] = @ + 1]

\* Step 3: client.files.create.
Upload ==
    /\ pc = "upload"
    /\ Called("upload")
    /\ Say({"Uploaded", "Creating"})
    /\ pc' = "create"
    /\ UNCHANGED <<other_runs, env, exc, system_prompt, metadata_content,
                   transcription_files, file_idx, batch_requests, skipped,
                   sleeps, batch, result_content, lines, line_idx,
                   output_folder>>

\* Step 4: client.batches.create; the job starts in a non-terminal status.
CreateJob ==
    /\ pc = "create"
    /\ Called("create")
    /\ \E s \in NonTerminal : batch' = [status |-> s, output_file_id |-> "none"]
    /\ Say({"Created", "Waiting"})
    /\ pc' = "retrieve"
    /\ UNCHANGED <<other_runs, env, exc, system_prompt, metadata_content,
                   transcription_files, file_idx, batch_requests, skipped,
                   sleeps, result_content, lines, line_idx, output_folder>>

\* A remote call raises (network or service failure); no handler.
RemoteCallFails ==
    /\ \E op \in {"upload", "create", "retrieve", "content"} :
          pc = op /\ Called(op)
    /\ Raise("APIError")
    /\ UNCHANGED <<other_runs, env,
                   system_prompt, metadata_content, transcription_files,
                   file_idx, batch_requests, skipped, sleeps, batch,
                   result_content, lines, line_idx, output_folder, printed>>

\* The break test without "cancelled".
BreakStatuses_NoCancelled == {"completed", "failed"}

\* The break test taking "running" for a final status.
BreakStatuses_Running == {"completed", "failed", "cancelled", "running"}

\* batch.status in ["completed", "failed", "cancelled"]
BreakStatuses == {"completed", "failed", "cancelled"}

\* The reply of the remote to the n-th status query.
Reply(n) ==
    LET s == env.script[IF n <= Len(env.script) THEN n ELSE Len(env.script)]
    IN  [status |-> s,
         output_file_id |-> IF s \in Terminal /\ env.output_file_id
                            THEN "file-out" ELSE "none"]

\* Step 5, the head of one turn of the polling loop:
\* client.batches.retrieve, the status print and the break test.
Retrieve ==
    /\ pc = "retrieve"
    /\ calls.retrieve < MaxPolls + 2
    /\ Called("retrieve")
    /\ batch' = Reply(calls.retrieve + 1)
    /\ Say({"Status"})
    /\ pc' = IF batch'.status \in BreakStatuses THEN "check" ELSE "sleep"
    /\ UNCHANGED <<other_runs, env, exc, system_prompt, metadata_content,
                   transcription_files, file_idx, batch_requests, skipped,
                   sleeps, result_content, lines, line_idx, output_folder>>

\* Step 5, the tail of one turn of the polling loop: time.sleep(30).
Sleep ==
    /\ pc = "sleep"
    /\ sleeps' = sleeps + 1
    /\ pc' = "retrieve"
    /\ UNCHANGED <<other_runs, env, exc, system_prompt, metadata_content,
                   transcription_files, file_idx, batch_requests, skipped,
                   calls, batch, result_content, lines, line_idx,
                   output_folder, printed>>

\* An interrupt handler that cancels the remote job.
CallsAfterInterrupt_Cancelling(c) == [c EXCEPT !.cancel = @ + 1]

\* The remote calls made when the polling loop is interrupted: the loop
\* has no handler, so none.
CallsAfterInterrupt(c) == c

\* KeyboardInterrupt while the function waits for the job: it leaves the
\* function, the job is left as it is.
Interrupt ==
    /\ pc \in {"retrieve", "sleep"}
    /\ Raise("KeyboardInterrupt")
    /\ calls' = CallsAfterInterrupt(calls)
    /\ UNCHANGED <<other_runs, env, system_prompt, metadata_content,
                   transcription_files, file_idx, batch_requests, skipped,
                   sleeps, batch, result_content, lines, line_idx,
                   output_folder, printed>>

\* The final status test left out.
NotCompleted_Unchecked(status) == FALSE

\* The final test as: batch.status == "failed".
NotCompleted_OnlyFailed(status) == status = "failed"

\* batch.status != "completed"
NotCompleted(status) == status # "completed"

\* The test of the output file id left out.
NoOutputFileId_Unchecked(output_file_id) == FALSE

\* not output_file_id
NoOutputFileId(output_file_id) == output_file_id = "none"

\* After the loop: the final status, then the output file id.
CheckFinal ==
    /\ pc = "check"
    /\ IF NotCompleted(batch.status)
       THEN Say({"NotCompleted"}) /\ Return
       ELSE IF NoOutputFileId(batch.output_file_id)
       THEN Say({"Completed", "ErrNoOutputId"}) /\ Return
       ELSE Say({"Completed", "Retrieving"}) /\ pc' = "content"
            /\ UNCHANGED exc
    /\ UNCHANGED <<other_runs, env,
                   system_prompt, metadata_content, transcription_files,
                   file_idx, batch_requests, skipped, calls, sleeps, batch,
                   result_content, lines, line_idx, output_folder>>

\* Step 6: client.files.content, the decode, the output folder and the
\* split of the content into lines.
Fetch ==
    /\ pc = "content"
    /\ Called("content")
    /\ result_content' = env.output
    /\ lines' = SplitLines(env.output)
    /\ line_idx' = 1
    /\ Say({"Saving"})
    /\ pc' = "demux"
    /\ UNCHANGED <<other_runs, env, exc, system_prompt, metadata_content,
                   transcription_files, file_idx, batch_requests, skipped,
                   sleeps, batch, output_folder>>

\* open(name, 'w') and write: the file holds body, whatever it held.
WriteFile(folder, name, body) ==
    [n \in DOMAIN folder \cup {name} |->
        IF n = name THEN body ELSE folder[n]]

\* Step 6, one iteration of the result loop: parse the line and write its
\* file; a JSONDecodeError, KeyError or IndexError ends the loop in the
\* handler, which writes the raw content; another exception is not caught.
DemuxLine ==
    /\ pc = "demux"
    /\ line_idx <= Len(lines)
    /\ UNCHANGED <<other_runs, env,
                   system_prompt, metadata_content, transcription_files,
                   file_idx, batch_requests, skipped, calls, sleeps, batch,
                   result_content, lines>>
    /\ LET r == ParseLine(lines[line_idx])
       IN  IF r.exc = "none"
           THEN /\ output_folder' =
                      WriteFile(output_folder,
                                ResultFileName(env.variant, r.custom_id),
                                ResultFileBody(env.variant, r.content))
                /\ line_idx' = line_idx + 1
                /\ UNCHANGED <<pc, exc, printed>>
           ELSE IF r.exc \in CaughtParseErrors
           THEN /\ Say({"ErrParsing", "SavingRaw"})
                /\ output_folder' =
                      WriteFile(output_folder, RawErrorName(env.variant),
                                RawFileBody(result_content))
                /\ Return
                /\ UNCHANGED line_idx
           ELSE /\ Raise(r.exc)
                /\ UNCHANGED <<line_idx, output_folder, printed>>

\* The result loop ran through every line.
DemuxEnd ==
    /\ pc = "demux"
    /\ line_idx > Len(lines)
    /\ Say({"AllSaved"})
    /\ Return
    /\ UNCHANGED <<other_runs, env,
                   system_prompt, metadata_content, transcription_files,
                   file_idx, batch_requests, skipped, calls, sleeps, batch,
                   result_content, lines, line_idx, output_folder>>

Next ==
    \/ CheckKey
    \/ ReadInputsReport
    \/ ReadInputsFacts
    \/ BuildRequest
    \/ BuildEnd
    \/ Upload
    \/ CreateJob
    \/ RemoteCallFails
    \/ Retrieve
    \/ Sleep
    \/ Interrupt
    \/ CheckFinal
    \/ Fetch
    \/ DemuxLine
    \/ DemuxEnd

Spec == Init /\ [][Next]_vars

\* ------------------------------------------------------------- type check
TypeOK ==
    /\ pc \in {"idle", "start", "read_inputs", "build", "upload", "create",
               "retrieve", "sleep", "check", "content", "demux", "done"}
    /\ batch.status \in Statuses \cup {"none"}
    /\ sleeps \in 0..(MaxPolls + 2)
    /\ line_idx \in 1..(Len(lines) + 1)

\* ------------------------------------------------- transcription stage
\* audio_transcriber.main, as run_pipeline starts it, once, in a run asked
\* for num_repeats repetitions.
MP3 == <<".", "m", "p", "3">>
A_MP3 == <<"a">> \o MP3
A_MP3_UPPER == <<"a", ".", "M", "P", "3">>
Sources == {A_MP3, A_MP3_UPPER, A_TXT}

\* str.lower() on the characters the source names are made of.
Lower(str) ==
    [i \in DOMAIN str |->
        IF str[i] = "M" THEN "m" ELSE IF str[i] = "P" THEN "p" ELSE str[i]]

\* A segment returned by WhisperX: the speaker label may be absent.
Segment(speaker, text) == [speaker |-> speaker, text |-> text]
NoSpeaker == "absent"
Segment1 == Segment("SPEAKER_00", "text1")
Segment2 == Segment(NoSpeaker, "text2")
SegmentLists == {<<>>, <<Segment1>>, <<Segment2>>, <<Segment1, Segment2>>}

\* What worker.process_audio.remote does when called: it returns segments
\* or raises.
RemoteOutcomes ==
    {[raises |-> FALSE, segments |-> g] : g \in SegmentLists}
        \cup {[raises |-> TRUE, segments |-> <<>>]}

TranscriberEnvs ==
    [token : ApiKeys, source : Sources, isfile : BOOLEAN,
     filename_given : BOOLEAN, num_repeats : 1..MaxRepeats,
     remote : RemoteOutcomes]

TranscriberStart(e) ==
    [pc |-> "start", env |-> e, exc |-> "none", remote_calls |-> 0,
     segments |-> <<>>, written |-> NoFiles, printed |-> {}]

\* not token or token == "YOUR_HUGGING_FACE_TOKEN_HERE"
TokenMissing(token) == token \in {"unset", "empty", "placeholder"}

\* segment.get('speaker', 'UNKNOWN') and the text of one written line.
TranscriptLine(segment) ==
    <<IF segment.speaker = NoSpeaker THEN "UNKNOWN" ELSE segment.speaker,
      segment.text>>

TranscriptBody(segments) ==
    [i \in DOMAIN segments |-> TranscriptLine(segments[i])]

\* filename, or the stem of the source when no filename is given.
TranscriptName(e) ==
    (IF e.filename_given THEN <<"f">> ELSE splitext(e.source)[1]) \o TXT

TrCheckToken ==
    /\ transcriber.pc = "start"
    /\ transcriber' =
        IF TokenMissing(transcriber.env.token)
        THEN [transcriber EXCEPT !.pc = "done", !.printed = {"ErrNoToken"}]
        ELSE [transcriber EXCEPT !.pc = "check_source"]
    /\ UNCHANGED <<batch_run, demuxers, pipeline>>

TrCheckSource ==
    /\ transcriber.pc = "check_source"
    /\ transcriber' =
        IF \/ ~transcriber.env.isfile
           \/ ~EndsWith(Lower(transcriber.env.source), MP3)
        THEN [transcriber EXCEPT !.pc = "done",
                                 !.printed = @ \cup {"ErrSource"}]
        ELSE [transcriber EXCEPT !.pc = "remote",
                                 !.printed = @ \cup {"Reading", "Submitting"}]
    /\ UNCHANGED <<batch_run, demuxers, pipeline>>

\* segments = worker.process_audio.remote(audio_bytes, num_speakers): the
\* one remote call of the run, made outside any try.
TrRemote ==
    /\ transcriber.pc = "remote"
    /\ transcriber' =
        IF transcriber.env.remote.raises
        THEN [transcriber EXCEPT !.pc = "done", !.exc = "RemoteError",
                                 !.remote_calls = @ + 1]
        ELSE [transcriber EXCEPT !.pc = "save", !.remote_calls = @ + 1,
                                 !.segments = transcriber.env.remote.segments]
    /\ UNCHANGED <<batch_run, demuxers, pipeline>>

TrSave ==
    /\ transcriber.pc = "save"
    /\ transcriber' =
        [transcriber EXCEPT
            !.pc = "done",
            !.written = WriteFile(@, TranscriptName(transcriber.env),
                                  TranscriptBody(transcriber.segments)),
            !.printed = @ \cup {"Saving", "Saved"}]
    /\ UNCHANGED <<batch_run, demuxers, pipeline>>

NominalEnv ==
    Env("process_batch", "valid", TRUE, TRUE, TRUE, NominalListing,
        <<"completed">>, TRUE, NominalOutput)

InitTranscriber ==
    /\ env = NominalEnv
    /\ pc = "idle"
    /\ InitLocals
    /\ transcriber \in {TranscriberStart(e) : e \in TranscriberEnvs}
    /\ demuxers = NotDemuxing
    /\ pipeline = NotSequencing

NextTranscriber ==
    \/ TrCheckToken
    \/ TrCheckSource
    \/ TrRemote
    \/ TrSave

SpecTranscriber == InitTranscriber /\ [][NextTranscriber]_vars

\* ------------------------------------------- two runs saving at once
\* Two runs of the same function, each past its own job, run their result
\* loops at the same time with the same output path.  Each run had an
\* input folder whose files have distinct stems, and its job answered
\* each request at most once.
InputFolderNames == {"x", "y"}

\* The output lines of one job: a result per key, no key twice, possibly
\* a line that is not JSON.
JobLines == {OkLine(ID_A, Content1), OkLine(<<"b">>, Content1), GarbageLine}

JobOutputs ==
    {o \in UNION {[1..k -> JobLines] : k \in 1..MaxFiles} :
        \A i, j \in DOMAIN o :
            (i # j /\ o[i].text = "json") => o[i].custom_id # o[j].custom_id}

\* The folder the result files go to, below the output path:
\* os.path.join(output_path, base_filename) in process_batch, the output
\* path itself in extract_facts_in_batch.
OutputDir(v, input_folder_name) ==
    IF v = "process_batch" THEN <<input_folder_name>> ELSE <<>>

ResultPath(v, input_folder_name, custom_id) ==
    <<OutputDir(v, input_folder_name), ResultFileName(v, custom_id)>>

\* raw_error_output.txt in the output folder (process_batch),
\* raw_error_output_{input_folder_name}.txt in the output path.
RawErrorPath(v, input_folder_name) ==
    <<OutputDir(v, input_folder_name),
      IF v = "process_batch" THEN <<"raw_error_output.txt">>
      ELSE <<"raw_error_output_", input_folder_name, ".txt">>>>

DemuxerStart(input_folder_name, output) ==
    [input_folder_name |-> input_folder_name, pc |-> "demux", exc |-> "none",
     lines |-> SplitLines(output), line_idx |-> 1]

\* Run j opened path for writing.
Opened(path, j) ==
    [p \in DOMAIN demuxers.opened_by \cup {path} |->
        IF p = path
        THEN (IF p \in DOMAIN demuxers.opened_by
              THEN demuxers.opened_by[p] ELSE {}) \cup {j}
        ELSE demuxers.opened_by[p]]

\* One iteration of the result loop of run j.
TwoDemuxLine(j) ==
    LET run == demuxers.runs[j]
        v == demuxers.variant
        r == ParseLine(run.lines[run.line_idx])
    IN  /\ demuxers.pc = "running"
        /\ run.pc = "demux"
        /\ run.line_idx <= Len(run.lines)
        /\ demuxers' =
            IF r.exc = "none"
            THEN [demuxers EXCEPT
                    !.runs[j].line_idx = @ + 1,
                    !.opened_by =
                        Opened(ResultPath(v, run.input_folder_name,
                                          r.custom_id), j)]
            ELSE IF r.exc \in CaughtParseErrors
            THEN [demuxers EXCEPT
                    !.runs[j].pc = "done",
                    !.opened_by =
                        Opened(RawErrorPath(v, run.input_folder_name), j)]
            ELSE [demuxers EXCEPT !.runs[j].pc = "done",
                                  !.runs[j].exc = r.exc]
        /\ UNCHANGED <<batch_run, transcriber, pipeline>>

\* The result loop of run j ran through every line.
TwoDemuxEnd(j) ==
    /\ demuxers.pc = "running"
    /\ demuxers.runs[j].pc = "demux"
    /\ demuxers.runs[j].line_idx > Len(demuxers.runs[j].lines)
    /\ demuxers' = [demuxers EXCEPT !.runs[j].pc = "done"]
    /\ UNCHANGED <<batch_run, transcriber, pipeline>>

TwoDemuxersLine == \E j \in {1, 2} : TwoDemuxLine(j)
TwoDemuxersEnd == \E j \in {1, 2} : TwoDemuxEnd(j)

InitTwoDemuxers ==
    /\ env = NominalEnv
    /\ pc = "idle"
    /\ InitLocals
    /\ transcriber = NotTranscribing
    /\ pipeline = NotSequencing
    /\ demuxers \in
        {[pc |-> "running", variant |-> v,
          runs |-> <<DemuxerStart(f1, o1), DemuxerStart(f2, o2)>>,
          opened_by |-> <<>>] :
            v \in Variants, f1 \in InputFolderNames, f2 \in InputFolderNames,
            o1 \in JobOutputs, o2 \in JobOutputs}

NextTwoDemuxers ==
    \/ TwoDemuxersLine
    \/ TwoDemuxersEnd

SpecTwoDemuxers == InitTwoDemuxers /\ [][NextTwoDemuxers]_vars

\* ------------------------------------------------------------- pipeline
\* run_pipeline.main: five commands run one after the other by
\* run_command, each a stage script started with the options main gives it.
StageOrder ==
    <<"audio_extractor", "audio_transcriber", "metadata_creator",
      "batch_processor", "fact_extractor">>

\* The options of the command main builds for each stage.
CommandOptions ==
    [audio_extractor |-> {"-f", "-o"},
     audio_transcriber |-> {"-f", "-o"},
     metadata_creator |-> {"-o"},
     batch_processor |-> {"-i", "-m", "-o", "-n"},
     fact_extractor |-> {"-o"}]

\* The options the argument parser of each stage script defines.
ParserOptions ==
    [audio_extractor |-> {"-o", "-f"},
     audio_transcriber |-> {"-o", "-f", "-n"},
     metadata_creator |-> {"-o"},
     batch_processor |-> {"-i", "-o", "-m"},
     fact_extractor |-> {"-o"}]

\* What can happen to one command: Popen raises (the executable is not
\* found, or another error), or the script runs and ends with a code.
LaunchErrors == {"FileNotFoundError", "OSError"}
ScriptExits == {"exit 0", "exit 1"}
StageOutcomes == LaunchErrors \cup ScriptExits

\* The exit code of a started stage: parse_args ends the script with
\* code 2 on an option its parser does not define.
ExitOf(stage, outcome) ==
    IF CommandOptions[stage] \subseteq ParserOptions[stage] THEN outcome
    ELSE "exit 2"

\* The exit code test that takes only code 1 for a failure.
NonZero_OnlyOne(rc) == rc = "exit 1"

\* rc != 0
NonZero(rc) == rc # "exit 0"

PipelineStart(outcomes) ==
    [pc |-> "running", outcomes |-> outcomes, started |-> <<>>,
     results |-> <<>>, exit_status |-> "none", printed |-> {}]

\* One stage of main: the step header, run_command on the command of the
\* next stage and, after the last stage, the final message.  run_command
\* leaves the pipeline with sys.exit(1) when Popen raises or the exit code
\* is not 0.
PipelineStage ==
    /\ pipeline.pc = "running"
    /\ Len(pipeline.started) < Len(StageOrder)
    /\ LET k == Len(pipeline.started) + 1
           stage == StageOrder[k]
           outcome == pipeline.outcomes[k]
           result == IF outcome \in LaunchErrors THEN outcome
                     ELSE ExitOf(stage, outcome)
           failed == outcome \in LaunchErrors \/ NonZero(result)
           said == IF outcome = "FileNotFoundError" THEN {"ErrNotFound"}
                   ELSE IF outcome = "OSError" THEN {"ErrUnexpected"}
                   ELSE IF NonZero(result) THEN {"ErrCommandFailed"}
                   ELSE IF k = Len(StageOrder) THEN {"Completed"}
                   ELSE {}
       IN  pipeline' =
             [pipeline EXCEPT
                !.started = Append(@, stage),
                !.results = Append(@, result),
                !.printed = @ \cup said,
                !.pc = IF failed THEN "exited"
                       ELSE IF k = Len(StageOrder) THEN "returned"
                       ELSE "running",
                !.exit_status = IF failed THEN "1"
                                ELSE IF k = Len(StageOrder) THEN "0"
                                ELSE "none"]
    /\ UNCHANGED <<batch_run, transcriber, demuxers>>

InitPipeline ==
    /\ env = NominalEnv
    /\ pc = "idle"
    /\ InitLocals
    /\ transcriber = NotTranscribing
    /\ demuxers = NotDemuxing
    /\ pipeline \in
        {PipelineStart(o) : o \in [DOMAIN StageOrder -> StageOutcomes]}

NextPipeline == PipelineStage

SpecPipeline == InitPipeline /\ [][NextPipeline]_vars

\* ----------------------------------------------------------------- claims
\* C1: in the batch path Completed, Failed and Cancelled are terminal: once
\* a status query has returned one of them, no further status query is
\* issued, the loop is not re-entered, and the batch the caller acts on
\* stays the one that query returned.
C1_TerminalEndsPolling ==
    [][(calls.retrieve > 0 /\ batch.status \in Terminal)
        => /\ calls'.retrieve = calls.retrieve
           /\ batch' = batch
           /\ pc' \notin {"retrieve", "sleep"}]_vars

C1_Witness ==
    /\ pc = "done"
    /\ batch.status = "cancelled"
    /\ calls.retrieve = 2
    /\ "NotCompleted" \in printed

\* C2: for a script of k non-terminal statuses followed by a terminal one
\* the poller makes exactly k+1 queries and k sleeps: a sleep follows each
\* non-terminal reply, none follows the terminal reply, and the batch it
\* ends with carries the terminal status of the script.
C2_QueriesAndSleeps ==
    LET k == Len(env.script) - 1
    IN  /\ pc = "retrieve" => sleeps = calls.retrieve /\ calls.retrieve <= k
        /\ pc = "sleep" =>
              /\ batch.status \in NonTerminal
              /\ sleeps = calls.retrieve - 1
              /\ calls.retrieve <= k
        /\ (pc \in {"check", "content", "demux"}
              \/ (pc = "done" /\ batch.status \in Terminal)) =>
              /\ calls.retrieve = k + 1
              /\ sleeps = k
              /\ batch.status = env.script[k + 1]

C2_Witness ==
    /\ env.script = <<"queued", "queued", "running", "completed">>
    /\ pc = "content"
    /\ calls.retrieve = 4
    /\ sleeps = 3
    /\ batch.status = "completed"

\* C3: a job ending Failed or Cancelled makes the function return without
\* exception, and the result step is never entered for it: the output file
\* is fetched and files are written only when the last status is Completed.
C3_ResultsOnlyWhenCompleted ==
    /\ (calls.content > 0 \/ output_folder # NoFiles
          \/ pc \in {"content", "demux"})
          => batch.status = "completed"
    /\ (pc = "done" /\ batch.status \in {"failed", "cancelled"})
          => exc = "none" /\ "NotCompleted" \in printed

C3_Witness ==
    /\ pc = "done"
    /\ batch.status = "failed"
    /\ batch.output_file_id # "none"
    /\ calls.content = 0
    /\ output_folder = NoFiles

\* A line in the success format of a result line:
\* {custom_id, response: {body: {choices: [{message: {content}}]}}}.
WellFormed(line) == line.text = "json" /\ line.response = "message"

\* The custom id a well-formed line carries, the default when it has none.
CarriedId(line) ==
    IF line.custom_id = Absent THEN UNKNOWN_REQUEST ELSE line.custom_id

\* The function returned after the result loop was entered.
DemuxReturned == pc = "done" /\ exc = "none" /\ calls.content > 0

SubmittedIds == {batch_requests[i].custom_id : i \in 1..Len(batch_requests)}

\* C4: a malformed result line does not abort the remaining lines: when
\* the function has returned from the result loop, every well-formed line
\* of the output, before or after a malformed one, has its file written.
C4_MalformedLineDoesNotAbort ==
    DemuxReturned =>
        \A i \in 1..Len(result_content) :
            WellFormed(result_content[i]) =>
                ResultFileName(env.variant, CarriedId(result_content[i]))
                    \in DOMAIN output_folder

\* C5: after the result step of a Completed job the raw error file exists
\* if and only if at least one line of the output does not parse (raises
\* a JSON, key or index error), and it then holds the content as received.
C5_RawFileIffParseFailure ==
    (pc = "done" /\ calls.content > 0 /\ lines # <<>>) =>
        /\ (RawErrorName(env.variant) \in DOMAIN output_folder)
              <=> (\E i \in 1..Len(lines) :
                      ParseLine(lines[i]).exc \in CaughtParseErrors)
        /\ (RawErrorName(env.variant) \in DOMAIN output_folder)
              => output_folder[RawErrorName(env.variant)]
                    = [kind |-> "raw", body |-> env.output]

\* C6: round trip of the correlation key in process_batch: for every
\* submitted request, when the output holds one well-formed line carrying
\* its custom_id, then after the result step the file named by that
\* custom_id exists and holds exactly the content of that line.
C6_RoundTrip ==
    (pc = "done" /\ calls.content > 0 /\ lines # <<>>
        /\ env.variant = "process_batch") =>
        \A r \in 1..Len(batch_requests) :
            \A i \in 1..Len(result_content) :
                (/\ WellFormed(result_content[i])
                 /\ result_content[i].custom_id = batch_requests[r].custom_id
                 /\ \A j \in 1..Len(result_content) :
                       result_content[j].custom_id
                          = batch_requests[r].custom_id => j = i)
                => LET name == batch_requests[r].custom_id \o <<".txt">>
                   IN  /\ name \in DOMAIN output_folder
                       /\ output_folder[name] =
                             [kind |-> "text",
                              body |-> result_content[i].content]

\* C7: a result whose custom_id is that of no submitted request (or that
\* has no custom_id) gets no output file: every result file written is
\* named by the custom_id of a request of this job.
C7_NoFileForUnknownKey ==
    \A name \in DOMAIN output_folder :
        name # RawErrorName(env.variant) =>
            \E id \in SubmittedIds : name = ResultFileName(env.variant, id)

\* The eligible entries of the input folder, by their names alone.
TxtEntries == {i \in 1..Len(env.listing) : EndsWith(env.listing[i].name, TXT)}

\* id is name without its extension, or name itself.
IsStemOf(id, name) ==
    \E n \in 0..Len(name) :
        /\ id = SubSeq(name, 1, n)
        /\ n < Len(name) => name[n + 1] = "."

\* C8: for an input folder of N distinct readable .txt files the request
\* loop builds exactly N requests, with pairwise distinct custom_ids, each
\* the name of its file without the extension.
C8_OneRequestPerFile ==
    (/\ pc \notin {"start", "read_inputs", "build"}
     /\ transcription_files # <<>>
     /\ \A i \in TxtEntries : env.listing[i].read = "ok") =>
        /\ Len(batch_requests) = Cardinality(TxtEntries)
        /\ \A i, j \in 1..Len(batch_requests) :
              i # j => batch_requests[i].custom_id # batch_requests[j].custom_id
        /\ \A i \in 1..Len(batch_requests) :
              IsStemOf(batch_requests[i].custom_id, transcription_files[i].name)

\* C9: when two work items share a correlation key, nothing is submitted:
\* no file is uploaded and no batch job is created.
C9_DuplicateKeysNotSubmitted ==
    (\E i, j \in 1..Len(batch_requests) :
        i # j /\ batch_requests[i].custom_id = batch_requests[j].custom_id)
    => calls.upload = 0 /\ calls.create = 0

\* C10: when the input folder exists and holds no .txt file, the function
\* ends on the "no .txt files" message before any remote call, and writes
\* no file.
C10_EmptyFolderStopsBeforeNetwork ==
    (/\ env.folder_exists
     /\ TxtEntries = {}) =>
        /\ calls = NoCalls
        /\ output_folder = NoFiles
        /\ pc \in {"start", "read_inputs", "done"}
        /\ (pc = "done" /\ ~KeyMissing(env.api_key)
              /\ (env.variant = "process_batch" => env.instructions_exists))
              => "NoTxtFiles" \in printed /\ exc = "none"

C10_Witness ==
    /\ env.folder_exists
    /\ env.listing # <<>>
    /\ TxtEntries = {}
    /\ pc = "done"
    /\ "NoTxtFiles" \in printed
    /\ calls = NoCalls

\* The values of OPENAI_API_KEY that stand for no credential.
AbsentKeys == {"unset", "empty", "placeholder"}

\* C11: when the API credential is absent (unset, empty or the
\* placeholder) the function reports it at its start and does nothing
\* else: no input is read, no remote call is made, no file is written, and
\* it does not end without the message.
C11_NoCredentialStopsAtStart ==
    env.api_key \in AbsentKeys =>
        /\ pc \in {"start", "done"}
        /\ system_prompt = Unread
        /\ metadata_content = Unread
        /\ transcription_files = <<>>
        /\ batch_requests = <<>>
        /\ calls = NoCalls
        /\ output_folder = NoFiles
        /\ pc = "done" => "ErrNoApiKey" \in printed

C11_Witness ==
    /\ env.api_key = "placeholder"
    /\ env.folder_exists
    /\ env.listing # <<>>
    /\ pc = "done"
    /\ "ErrNoApiKey" \in printed

\* C12: a job that is Completed but carries no output file id ends the
\* function on the reported "no output file id" error: the content is not
\* fetched and neither a result file nor the raw error file is written.
C12_CompletedWithoutOutputIsReported ==
    (calls.retrieve > 0 /\ batch.status = "completed"
        /\ batch.output_file_id = "none") =>
        /\ pc \in {"check", "done"}
        /\ calls.content = 0
        /\ output_folder = NoFiles
        /\ pc = "done" => "ErrNoOutputId" \in printed

C12_Witness ==
    /\ pc = "done"
    /\ batch.status = "completed"
    /\ batch.output_file_id = "none"
    /\ "ErrNoOutputId" \in printed
    /\ calls.content = 0

\* A status query raised and no later remote call was made.
StatusQueryFailed ==
    exc = "APIError" /\ calls.retrieve > 0 /\ calls.content = 0

\* C13: the poller tolerates a failing status query: the failure does not
\* end the function (it retries the query).
C13_StatusQueryFailureTolerated ==
    StatusQueryFailed => pc # "done"

\* The maximum waits that can be configured, in polling intervals.
MaxWaits == 1..(MaxPolls - 1)

\* C14: with a maximum wait configured the poller stops waiting: it does
\* not sleep for more polling intervals than the maximum wait holds.
C14_PollerTimesOut ==
    \A w \in MaxWaits : sleeps <= w

\* The transcription run ended normally with its transcript saved.
TranscriptSaved ==
    /\ transcriber.pc = "done"
    /\ transcriber.exc = "none"
    /\ "Saved" \in transcriber.printed

\* C15: a run asked for count repetitions returns exactly count results,
\* one per task index: count remote calls have been made when it ends
\* with its results saved.
C15_OneResultPerRepetition ==
    TranscriptSaved =>
        transcriber.remote_calls = transcriber.env.num_repeats

\* C16: a failing remote call does not fail the run as a whole: no
\* exception leaves the run, the failure being kept as the outcome of its
\* task.
C16_TaskFailureDoesNotFailTheRun ==
    (transcriber.pc = "done" /\ transcriber.remote_calls > 0
        /\ transcriber.env.remote.raises) =>
        transcriber.exc = "none"

\* C17: no execution cancels the remote job, one interrupted while polling
\* and one whose job ends failed included: the remote calls made are
\* uploads, job creations, status queries and output retrievals only.
C17_NoCancelRequest == calls.cancel = 0

C17_Witness ==
    /\ pc = "done"
    /\ exc = "KeyboardInterrupt"
    /\ calls.create = 1
    /\ calls.retrieve > 0
    /\ batch.status \in NonTerminal
    /\ calls.cancel = 0

\* C18: two runs saving the results of two different jobs at the same
\* time below the same output path, each job with keys of its own that
\* are unique within it, never open the same file.
C18_NoFileOpenedByBothRuns ==
    demuxers.pc = "running" =>
        \A p \in DOMAIN demuxers.opened_by :
            Cardinality(demuxers.opened_by[p]) <= 1

\* The submitted requests that have no result file.
Unsaved ==
    {id \in SubmittedIds :
        ResultFileName(env.variant, id) \notin DOMAIN output_folder}

\* Every message that is a warning or an error.
WarningsAndErrors ==
    {"ErrNoApiKey", "ErrInputNotFound", "WarnNoMetadata", "NoTxtFiles",
     "WarnSkipFile", "ErrNoValidRequests", "NotCompleted", "ErrNoOutputId",
     "ErrParsing"}

\* C19: no silent truncation: when the function returns from the result
\* loop and a submitted request has no result file, a warning or an error
\* was printed in the run and "All results saved" was not.
C19_NoSilentTruncation ==
    (DemuxReturned /\ Unsaved # {}) =>
        /\ printed \cap WarningsAndErrors # {}
        /\ "AllSaved" \notin printed

\* The counts the printed messages carry: the one message with a count is
\* "Batch data for {len(batch_requests)} requests prepared".
PrintedCounts ==
    IF "Prepared" \in printed THEN {Len(batch_requests)} ELSE {}

\* The submitted requests for which the output holds a parseable result.
Matched ==
    {id \in SubmittedIds :
        \E i \in DOMAIN lines :
            WellFormed(lines[i]) /\ CarriedId(lines[i]) = id}

\* C20: when the function has returned from the result loop it has
\* reported a count equal to the number of submitted requests for which a
\* parseable result with a matching key was found.
C20_MatchedCountReported ==
    DemuxReturned => Cardinality(Matched) \in PrintedCounts

\* The eligible files of the listing that can be read, in listing order.
ReadableFiles ==
    SelectSeq(EligibleFiles(env.listing), LAMBDA e : e.read = "ok")

\* process_batch runs with everything it needs but the metadata file.
OnlyMetadataMissing ==
    /\ env.variant = "process_batch"
    /\ env.api_key = "valid"
    /\ env.instructions_exists
    /\ env.folder_exists
    /\ ~env.metadata_exists

\* C21: a missing metadata file is not an error in process_batch: the
\* context is the empty text, a warning is printed, and the batch is built
\* with one request per readable file, each with the empty context, and is
\* submitted when there is such a file.
C21_MissingMetadataIsNotAnError ==
    (OnlyMetadataMissing /\ pc \notin {"start", "read_inputs"}) =>
        /\ metadata_content = ""
        /\ "WarnNoMetadata" \in printed
        /\ "ErrInputNotFound" \notin printed
        /\ \A i \in DOMAIN batch_requests : batch_requests[i].metadata = ""
        /\ pc \notin {"build", "done"} =>
            /\ Len(batch_requests) = Len(ReadableFiles)
            /\ \A i \in DOMAIN batch_requests :
                  batch_requests[i].text = ReadableFiles[i].name
        /\ (pc = "done" /\ ReadableFiles # <<>>) => calls.upload = 1

C21_Witness ==
    /\ OnlyMetadataMissing
    /\ Len(ReadableFiles) = 2
    /\ Len(batch_requests) = 2
    /\ calls.create = 1
    /\ pc = "done"

\* The stages, in the order the pipeline is to run them.
FixedOrder ==
    <<"audio_extractor", "audio_transcriber", "metadata_creator",
      "batch_processor", "fact_extractor">>

\* Stage k of the run was started and ended with exit code 0.
EndedWithZero(k) == pipeline.results[k] = "exit 0"

\* C22: the pipeline is fail-fast: the stages are started in the fixed
\* order, each only after the one before it ended with exit code 0; once
\* a stage could not be started or ended with another code, no later
\* stage is started, the pipeline has exited with status 1 and the
\* success message is not printed.
C22_FailFast ==
    pipeline.pc # "idle" =>
        LET n == Len(pipeline.started)
        IN  /\ n <= Len(FixedOrder)
            /\ pipeline.started = SubSeq(FixedOrder, 1, n)
            /\ \A k \in 1..(n - 1) : EndedWithZero(k)
            /\ \A k \in 1..n :
                  ~EndedWithZero(k) =>
                      /\ n = k
                      /\ pipeline.pc = "exited"
                      /\ pipeline.exit_status = "1"
                      /\ "Completed" \notin pipeline.printed

C22_Witness ==
    /\ pipeline.pc = "exited"
    /\ Len(pipeline.started) = 4
    /\ pipeline.results[4] = "exit 2"
    /\ pipeline.exit_status = "1"

\* The handled fatal conditions, each as the first one the run meets.
\* An input the function needs is missing: the input folder, or the
\* instructions file of process_batch.
InputMissing ==
    /\ env.api_key \notin AbsentKeys
    /\ \/ ~env.folder_exists
       \/ env.variant = "process_batch" /\ ~env.instructions_exists

NoEligibleFile ==
    /\ env.api_key \notin AbsentKeys
    /\ ~InputMissing
    /\ TxtEntries = {}

\* No request can be built: every eligible file fails to open with an
\* error the request loop handles (any IOError in process_batch, a file
\* not found in extract_facts_in_batch).
NoBuildableRequest ==
    /\ env.api_key \notin AbsentKeys
    /\ ~InputMissing
    /\ TxtEntries # {}
    /\ \A i \in TxtEntries :
          /\ env.listing[i].read # "ok"
          /\ env.variant = "extract_facts_in_batch" =>
                env.listing[i].read = "FileNotFoundError"

\* The message of the condition met before submission, if there is one.
EarlyFatal ==
    IF env.api_key \in AbsentKeys THEN {"ErrNoApiKey"}
    ELSE IF InputMissing THEN {"ErrInputNotFound"}
    ELSE IF NoEligibleFile THEN {"NoTxtFiles"}
    ELSE IF NoBuildableRequest THEN {"ErrNoValidRequests"}
    ELSE {}

\* C23: every handled fatal condition makes the function print its message
\* and return without raising, with no output file written; for a
\* condition met before submission no remote call is made.
C23_FatalConditionsPrintAndReturn ==
    /\ EarlyFatal # {} =>
          /\ calls = NoCalls
          /\ output_folder = NoFiles
          /\ exc = "none"
          /\ pc \in {"start", "read_inputs", "build", "done"}
          /\ pc = "done" => EarlyFatal \subseteq printed
    /\ (calls.retrieve > 0 /\ batch.status \in {"failed", "cancelled"}) =>
          /\ calls.content = 0
          /\ output_folder = NoFiles
          /\ exc = "none"
          /\ pc \in {"check", "done"}
          /\ pc = "done" => "NotCompleted" \in printed
    /\ (calls.retrieve > 0 /\ batch.status = "completed"
          /\ batch.output_file_id = "none") =>
          /\ output_folder = NoFiles
          /\ exc = "none"
          /\ pc = "done" => "ErrNoOutputId" \in printed

C23_Witness ==
    /\ NoBuildableRequest
    /\ Cardinality(TxtEntries) = 2
    /\ pc = "done"
    /\ exc = "none"
    /\ "ErrNoValidRequests" \in printed

\* A remote call raised before the job existed: the upload, or the job
\* creation.
SubmissionFailed ==
    exc = "APIError" /\ calls.upload = 1 /\ "Created" \notin printed

\* C24: the batch path is sequential, with one job: at most one upload
\* and one job creation; the creation after the upload returned, the
\* first status query after the creation returned, the fetch after a
\* status query returned completed, every write after the fetch
\* returned; when the upload or the creation fails nothing follows.
C24_SequentialSingleJob ==
    /\ calls.upload <= 1
    /\ calls.create <= 1
    /\ calls.content <= 1
    /\ calls.create > 0 => "Uploaded" \in printed
    /\ calls.retrieve > 0 => "Created" \in printed
    /\ calls.content > 0 => calls.retrieve > 0 /\ batch.status = "completed"
    /\ output_folder # NoFiles => calls.content = 1 /\ "Saving" \in printed
    /\ SubmissionFailed =>
          /\ pc = "done"
          /\ "Uploaded" \notin printed => calls.create = 0
          /\ calls.retrieve = 0
          /\ calls.content = 0
          /\ batch = NoBatch
          /\ output_folder = NoFiles

C24_Witness ==
    /\ pc = "done"
    /\ calls.upload = 1
    /\ calls.create = 1
    /\ calls.retrieve > 1
    /\ calls.content = 1
    /\ output_folder # NoFiles

\* The names of the files the requests were built from, in order.
RequestedNames == [i \in DOMAIN batch_requests |-> batch_requests[i].text]

\* The request loop went through the whole listing.
ListingRead ==
    transcription_files # <<>> /\ file_idx > Len(transcription_files)

\* C25: a listed file that cannot be read is skipped with a warning and
\* does not end the function: no read error leaves it, the batch holds one
\* request per readable eligible file, and it is uploaded exactly when
\* there is such a file.
C25_UnreadableFileIsSkipped ==
    /\ exc \notin {"FileNotFoundError", "PermissionError"}
    /\ \A i \in 1..Len(transcription_files) :
          (i < file_idx /\ transcription_files[i].read # "ok") =>
              /\ transcription_files[i].name \in skipped
              /\ "WarnSkipFile" \in printed
    /\ ListingRead =>
          RequestedNames = [i \in DOMAIN ReadableFiles |-> ReadableFiles[i].name]
    /\ calls.upload > 0 => ReadableFiles # <<>>
    /\ (pc = "done" /\ transcription_files # <<>> /\ ReadableFiles # <<>>) =>
          calls.upload > 0

\* The line raises a JSON error (not JSON), a key error (no response) or
\* an index error (no choice).
RaisesHandled(line) ==
    line.text # "json" \/ line.response \in {"absent", "no_choices"}

\* p is the position of the first line that raises, and what it raises is
\* a JSON, key or index error.
FirstRaisingAt(p) ==
    /\ p \in DOMAIN lines
    /\ \A i \in 1..(p - 1) : WellFormed(lines[i])
    /\ RaisesHandled(lines[p])

\* The result files of the lines before p: for each key the content of
\* its last line before p.
FilesBefore(p) ==
    LET names == {ResultFileName(env.variant, CarriedId(lines[i])) :
                     i \in 1..(p - 1)}
        last(n) == CHOOSE i \in 1..(p - 1) :
                      /\ ResultFileName(env.variant, CarriedId(lines[i])) = n
                      /\ \A j \in (i + 1)..(p - 1) :
                            ResultFileName(env.variant, CarriedId(lines[j])) # n
    IN  [n \in names |->
            ResultFileBody(env.variant, lines[last(n)].content)]

\* C26: the result lines are processed in order and written as they are
\* read: when the first line that raises a JSON, key or index error is at
\* position p, the function ends with the files of the lines before p and
\* the raw error file holding the whole content, no line after p is
\* processed and "All results saved" is not printed; before it reaches p
\* the files of the lines read so far are written.
C26_StopsAtFirstFailingLine ==
    \A p \in DOMAIN lines :
        (calls.content > 0 /\ FirstRaisingAt(p)) =>
            /\ line_idx <= p
            /\ "AllSaved" \notin printed
            /\ pc = "demux" => output_folder = FilesBefore(line_idx)
            /\ pc = "done" =>
                  /\ exc = "none"
                  /\ line_idx = p
                  /\ "ErrParsing" \in printed
                  /\ output_folder =
                        WriteFile(FilesBefore(p), RawErrorName(env.variant),
                                  RawFileBody(result_content))

C26_Witness ==
    /\ pc = "done"
    /\ Len(lines) = 3
    /\ FirstRaisingAt(2)
    /\ lines[2].response = "no_choices"
    /\ WellFormed(lines[3])
    /\ DOMAIN output_folder =
          {ResultFileName(env.variant, CarriedId(lines[1])),
           RawErrorName(env.variant)}
====
